---- MODULE Spec2Model ----
(***************************************************************************)
(* Model of the scheduling and execution core of QNAPBackup:              *)
(* backend/scheduler.py (BackupScheduler, ScheduleHistory) and the parts  *)
(* of backend/main.py that it calls or that share its state               *)
(* (scheduled_backup_callback, run_backup_script, start_backup, the       *)
(* schedule endpoints).                                                    *)
(*                                                                         *)
(* Time is counted in whole minutes since 2024-01-01T00:00 (a Monday).    *)
(* A timestamp string is modelled by the minute it denotes; every call of *)
(* datetime.now() inside one instant of the model returns that minute     *)
(* plus a positive fraction.  An optional value is <<>> (None) or <<x>>.  *)
(***************************************************************************)
EXTENDS Integers, Sequences, FiniteSets, TLC

\* ---------------------------------------------------------------- bounds
MaxJobs == 2
MaxTicks == 1
MaxExecs == 2
MaxUpdates == 1
MaxManual == 2
MaxLines == 1

\* ------------------------------------------------------- program constants
\* ScheduleHistory(max_entries=100)
max_entries == 100

None == <<>>
Some(x) == <<x>>
IsSome(o) == o # <<>>
Val(o) == o[1]

MinOf(S) == CHOOSE x \in S : \A y \in S : x <= y

\* ------------------------------------------------------------- calendar
DayOf(t) == t \div 1440
MinuteOfDay(t) == t % 1440
\* 0 = Monday .. 6 = Sunday; day 0 of the model is a Monday.
Weekday(d) == d % 7
IsLeap(y) == (y % 4 = 0 /\ y % 100 # 0) \/ y % 400 = 0
DaysInYear(y) == IF IsLeap(y) THEN 366 ELSE 365
DaysInMonth(y, m) ==
    IF m = 2 THEN (IF IsLeap(y) THEN 29 ELSE 28)
    ELSE IF m \in {4, 6, 9, 11} THEN 30 ELSE 31

RECURSIVE YearOfDay(_, _)
\* <<year, day of the year (0-based)>> of day d counted from 1 January of y.
YearOfDay(y, d) ==
    IF d < DaysInYear(y) THEN <<y, d>> ELSE YearOfDay(y + 1, d - DaysInYear(y))

RECURSIVE MonthOfDay(_, _, _)
\* <<month, day of the month>> of 0-based day d of year y, from month m on.
MonthOfDay(y, m, d) ==
    IF d < DaysInMonth(y, m) THEN <<m, d + 1>>
    ELSE MonthOfDay(y, m + 1, d - DaysInMonth(y, m))

Month(d) == LET yd == YearOfDay(2024, d) IN MonthOfDay(yd[1], 1, yd[2])[1]
DayOfMonth(d) == LET yd == YearOfDay(2024, d) IN MonthOfDay(yd[1], 1, yd[2])[2]

\* ------------------------------------------------------- trigger engine
AllMinutes == 0..59
AllHours == 0..23
AllDays == 1..31
AllMonths == 1..12
AllWeekdays == 0..6

\* A CronTrigger: the set of values each field accepts.
CronFields(mi, ho, da, mo, dw) ==
    [kind |-> "cron", minute |-> mi, hour |-> ho, day |-> da, month |-> mo, dow |-> dw]
TriggerError == [kind |-> "error"]

\* CronTrigger.from_crontab(expr)
from_crontab(expr) ==
    IF expr = "*/5 * * * *"
    THEN CronFields({m \in AllMinutes : m % 5 = 0}, AllHours, AllDays, AllMonths, AllWeekdays)
    ELSE TriggerError

SeqToSet(q) == {q[i] : i \in 1..Len(q)}

\* time_of_day is <<hour, minute>>, the result of map(int, s.split(':')).
TimeValid(tod) == Len(tod) = 2 /\ tod[1] \in AllHours /\ tod[2] \in AllMinutes

\* BackupScheduler._get_trigger: the trigger built from a schedule at time t,
\* TriggerError when building it raises.
_get_trigger(s, t) ==
    CASE s.schedule_type = "cron" ->
            IF IsSome(s.cron_expression) THEN from_crontab(Val(s.cron_expression))
            ELSE TriggerError
      [] s.schedule_type = "interval" ->
            IF IsSome(s.interval_minutes)
            THEN [kind |-> "interval", interval |-> Val(s.interval_minutes),
                  start_date |-> t + Val(s.interval_minutes)]
            ELSE TriggerError
      [] s.schedule_type = "daily" ->
            IF TimeValid(s.time_of_day)
            THEN CronFields({s.time_of_day[2]}, {s.time_of_day[1]},
                            AllDays, AllMonths, AllWeekdays)
            ELSE TriggerError
      [] s.schedule_type = "weekly" ->
            IF TimeValid(s.time_of_day) /\ IsSome(s.days_of_week)
               /\ Val(s.days_of_week) # <<>>
               /\ SeqToSet(Val(s.days_of_week)) \subseteq AllWeekdays
            THEN CronFields({s.time_of_day[2]}, {s.time_of_day[1]},
                            AllDays, AllMonths, SeqToSet(Val(s.days_of_week)))
            ELSE TriggerError
      [] s.schedule_type = "monthly" ->
            IF TimeValid(s.time_of_day) /\ IsSome(s.days_of_month)
               /\ Val(s.days_of_month) # <<>>
               /\ SeqToSet(Val(s.days_of_month)) \subseteq AllDays
            THEN CronFields({s.time_of_day[2]}, {s.time_of_day[1]},
                            SeqToSet(Val(s.days_of_month)), AllMonths, AllWeekdays)
            ELSE TriggerError
      [] s.schedule_type = "once" ->
            IF IsSome(s.run_date) /\ Val(s.run_date) >= 0
            THEN [kind |-> "date", run_date |-> Val(s.run_date)]
            ELSE TriggerError
      [] OTHER -> TriggerError

DayMatches(f, d) ==
    DayOfMonth(d) \in f.day /\ Month(d) \in f.month /\ Weekday(d) \in f.dow

RECURSIVE NextCronDay(_, _, _)
\* The first day >= d that the fields accept, -1 when none within `left` days.
NextCronDay(f, d, left) ==
    IF left = 0 THEN -1
    ELSE IF DayMatches(f, d) THEN d ELSE NextCronDay(f, d + 1, left - 1)

\* The first minute of a day after minute-of-day m (m = -1: from 00:00 on)
\* that the fields accept, -1 when there is none.
FirstTimeAfter(f, m) ==
    LET hs == {h \in f.hour : \E mi \in f.minute : h * 60 + mi > m}
    IN  IF hs = {} THEN -1
        ELSE LET h0 == MinOf(hs)
             IN  h0 * 60 + MinOf({mi \in f.minute : h0 * 60 + mi > m})

\* The first minute strictly after `after` that the cron fields accept.
NextCron(f, after) ==
    LET d0 == DayOf(after)
        today == IF DayMatches(f, d0) THEN FirstTimeAfter(f, MinuteOfDay(after)) ELSE -1
    IN  IF today >= 0 THEN Some(d0 * 1440 + today)
        ELSE LET d1 == NextCronDay(f, d0 + 1, 1500)
                 first == FirstTimeAfter(f, -1)
             IN  IF d1 < 0 \/ first < 0 THEN None ELSE Some(d1 * 1440 + first)

\* Variant: every trigger is exhausted by its first firing.
get_next_fire_time_Exhausted(trig, prev, t) ==
    CASE trig.kind = "cron" -> IF IsSome(prev) THEN None ELSE NextCron(trig, t)
      [] trig.kind = "interval" -> IF IsSome(prev) THEN None ELSE Some(trig.start_date)
      [] trig.kind = "date" -> IF IsSome(prev) THEN None ELSE Some(trig.run_date)
      [] OTHER -> None

\* trigger.get_next_fire_time(previous_fire_time, now); prev is optional.
get_next_fire_time(trig, prev, t) ==
    CASE trig.kind = "cron" ->
            \* start = min(now, prev + 1us) after a firing, now otherwise
            IF IsSome(prev) /\ Val(prev) <= t THEN NextCron(trig, Val(prev))
            ELSE NextCron(trig, t)
      [] trig.kind = "interval" ->
            IF IsSome(prev) THEN Some(Val(prev) + trig.interval)
            ELSE Some(trig.start_date)
      [] trig.kind = "date" ->
            IF IsSome(prev) THEN None ELSE Some(trig.run_date)
      [] OTHER -> None

\* croniter(expr, now).get_next(datetime): None when croniter raises.
croniter_next(expr, t) ==
    IF expr = "*/5 * * * *"
    THEN NextCron(CronFields({m \in AllMinutes : m % 5 = 0}, AllHours, AllDays,
                             AllMonths, AllWeekdays), t)
    ELSE None

\* BackupScheduler._calculate_next_run at time t: the optional next_run.
_calculate_next_run(s, t) ==
    CASE s.schedule_type = "cron" ->
            IF IsSome(s.cron_expression) THEN croniter_next(Val(s.cron_expression), t)
            ELSE None
      [] s.schedule_type = "once" -> s.run_date
      [] OTHER ->
            LET trig == _get_trigger(s, t)
            IN  IF trig.kind = "error" THEN None
                ELSE get_next_fire_time(trig, None, t)

\* The text form of the next_run that _calculate_next_run returns: run_date
\* as the client wrote it, "2026-01-10 02:00:00" in the field's description,
\* for a one-shot job, and datetime.isoformat(), with a "T", for the others.
CalculatedText(s, t) ==
    IF ~IsSome(_calculate_next_run(s, t)) THEN "iso"
    ELSE IF s.schedule_type = "once" THEN "raw" ELSE "iso"

\* ---------------------------------------------------------------- state
VARIABLES
    now,              \* the clock, in minutes
    schedules,        \* BackupScheduler.schedules: id -> ScheduleConfig
    timers,           \* the APScheduler job table: id -> next_run_time
    _running_backup,  \* BackupScheduler._running_backup, the gate
    history,          \* ScheduleHistory.entries, newest first
    persisted,        \* the content of schedules.json, None while there is no file
    writable,         \* whether a write of schedules.json succeeds
    execs,            \* the _execute_scheduled_backup coroutines in flight
    nExec,            \* coroutines created so far
    tasks,            \* every task dict created, in creation order
    procs,            \* the run_backup_script coroutines in flight, by task dict
    nextId,           \* job ids handed out so far
    nManual,          \* manual dispatches so far
    nUpdates,         \* updates so far
    running,          \* BackupScheduler.scheduler.running
    response          \* the reply to the last POST /api/schedules, None before it

vars == <<now, schedules, timers, _running_backup, history, persisted, writable, execs,
          nExec, tasks, procs, nextId, nManual, nUpdates, running, response>>

\* The ids a caller may name: those the store has handed out and one more.
JobIds == 1..(MaxJobs + 1)

EmptyMap == [x \in {} |-> 0]
Drop(f, k) == [x \in DOMAIN f \ {k} |-> f[x]]

\* class BackupType
BackupTypeEnum == {"mongodb", "milvus", "postgres", "additional", "global"}

\* ------------------------------------------------------------ the inputs
\* What POST /api/schedules can hand to create_schedule after the request
\* model and the endpoint's checks accepted it (one request per kind).
BaseConfig ==
    [id |-> 0, schedule_type |-> "daily", status |-> "active",
     backup_types |-> <<"mongodb">>, sequential_execution |-> TRUE,
     cron_expression |-> None, interval_minutes |-> None, time_of_day |-> None,
     days_of_week |-> None, days_of_month |-> None, run_date |-> None,
     created_at |-> 0, updated_at |-> 0, last_run |-> None, next_run |-> None,
     next_run_text |-> "iso", run_count |-> 0, last_status |-> None]

CreateInputs ==
    { [BaseConfig EXCEPT !.schedule_type = "interval", !.interval_minutes = Some(5),
                         !.backup_types = <<"mongodb", "postgres">>],
      [BaseConfig EXCEPT !.schedule_type = "once", !.run_date = Some(5)],
      [BaseConfig EXCEPT !.schedule_type = "daily", !.time_of_day = <<0, 5>>,
                         !.backup_types = <<"mongodb", "postgres">>,
                         !.sequential_execution = FALSE],
      [BaseConfig EXCEPT !.schedule_type = "weekly", !.time_of_day = <<0, 5>>,
                         !.days_of_week = Some(<<0>>)],
      [BaseConfig EXCEPT !.schedule_type = "monthly", !.time_of_day = <<0, 5>>,
                         !.days_of_month = Some(<<1>>)],
      [BaseConfig EXCEPT !.schedule_type = "cron",
                         !.cron_expression = Some("*/5 * * * *")] }

\* What PUT /api/schedules/{id}, pause and resume can hand to update_schedule:
\* the fields of the request that are not None, unchecked.
UpdateInputs ==
    { [status |-> "paused"], [status |-> "active"], [status |-> "disabled"],
      [backup_types |-> <<"bogus", "mongodb">>],
      [backup_types |-> <<>>, sequential_execution |-> FALSE] }

\* ------------------------------------------------------------ persistence
\* The fields of ScheduleConfig that hold a member of an enum, and those that
\* are Optional.
EnumFields == {"schedule_type", "status"}
OptionalFields ==
    {"cron_expression", "interval_minutes", "time_of_day", "days_of_week",
     "days_of_month", "run_date", "last_run", "next_run", "last_status"}

\* Variant: the status is written as active whatever it is.
json_dump_field_Lossy(f, v) ==
    IF f = "status" THEN <<"string", "active">>
    ELSE IF f \in EnumFields THEN <<"string", v>>
    ELSE IF f \in OptionalFields /\ v = None THEN <<"null">>
    ELSE <<"value", v>>

\* json.dump of one field of asdict(schedule): a member of a str enum is
\* written as the string of its value, None as null, anything else as the
\* JSON value of the same content.
json_dump_field(f, v) ==
    IF f \in EnumFields THEN <<"string", v>>
    ELSE IF f \in OptionalFields /\ v = None THEN <<"null">>
    ELSE <<"value", v>>

\* ScheduleConfig.to_dict as json.dump writes it.
to_dict(s) == [f \in DOMAIN s |-> json_dump_field(f, s[f])]

\* The document _save_schedules writes at time t.
json_file(scheds, t) ==
    Some([schedules |-> [id \in DOMAIN scheds |-> to_dict(scheds[id])],
          updated_at |-> t])

\* A file that a failed write left truncated: json.load raises on it.
Corrupt == Some([truncated |-> TRUE])

\* Variant: a write stores the job set as it was before the operation.
_save_schedules_Stale(scheds, t) ==
    IF writable THEN {json_file(schedules, t)} ELSE {persisted, Corrupt}

\* BackupScheduler._save_schedules at time t: the file afterwards.  A write
\* that fails is logged and leaves the file as it was (open failed) or
\* truncated (the dump failed).
_save_schedules(scheds, t) ==
    IF writable THEN {json_file(scheds, t)} ELSE {persisted, Corrupt}

\* ------------------------------------------------------------ registration
\* BackupScheduler._register_schedule: the job table after (re)arming job id
\* from record s at time t; building the trigger may raise after the old
\* timer is removed.
_register_schedule(tm, id, s, t) ==
    LET trig == _get_trigger(s, t)
        nxt == IF trig.kind = "error" THEN None ELSE get_next_fire_time(trig, None, t)
    IN  IF IsSome(nxt) THEN (id :> Val(nxt)) @@ Drop(tm, id) ELSE Drop(tm, id)

\* The next_run that _register_schedule leaves in the record.
RegisteredNextRun(s, t) ==
    LET trig == _get_trigger(s, t)
        nxt == IF trig.kind = "error" THEN None ELSE get_next_fire_time(trig, None, t)
    IN  IF IsSome(nxt) THEN nxt ELSE s.next_run

\* The text form of that next_run: job.next_run_time.isoformat() when
\* written, the text already there otherwise.
RegisteredText(s, t) ==
    LET trig == _get_trigger(s, t)
        nxt == IF trig.kind = "error" THEN None ELSE get_next_fire_time(trig, None, t)
    IN  IF IsSome(nxt) THEN "iso" ELSE s.next_run_text

\* Variant: the job table is left as it is.
_unregister_schedule_Kept(tm, id) == tm

\* BackupScheduler._unregister_schedule
_unregister_schedule(tm, id) == Drop(tm, id)

\* class ScheduleType, class ScheduleStatus
ScheduleTypes == {"cron", "interval", "daily", "weekly", "monthly", "once"}
ScheduleStatuses == {"active", "paused", "disabled"}

\* json.load of one field.
json_load_field(f, j) == IF j[1] = "null" THEN None ELSE j[2]

\* json.load of one record of the file: the dict handed to from_dict.
json_load(rec) == [f \in DOMAIN rec |-> json_load_field(f, rec[f])]

\* ScheduleConfig.from_dict raises on a value that is no member of its enum.
from_dict_ok(d) == d.schedule_type \in ScheduleTypes /\ d.status \in ScheduleStatuses

RECURSIVE LoadFrom(_, _, _)
\* The loop of _load_schedules from id i on: it stops at the first record that
\* from_dict rejects (the except clause is outside the loop).
LoadFrom(recs, i, acc) ==
    IF \A k \in DOMAIN recs : k < i THEN acc
    ELSE IF i \notin DOMAIN recs THEN LoadFrom(recs, i + 1, acc)
    ELSE IF from_dict_ok(json_load(recs[i]))
         THEN LoadFrom(recs, i + 1,
                       (json_load(recs[i]).id :> json_load(recs[i]))
                       @@ Drop(acc, json_load(recs[i]).id))
    ELSE acc

\* BackupScheduler._load_schedules
_load_schedules(file) ==
    IF file = None \/ file = Corrupt THEN EmptyMap
    ELSE LoadFrom(Val(file).schedules, 1, EmptyMap)

\* The jobs a file holds, record by record.
FileJobs(file) ==
    IF file = None \/ file = Corrupt THEN EmptyMap
    ELSE [id \in DOMAIN Val(file).schedules |-> json_load(Val(file).schedules[id])]

\* BackupScheduler.start at time t: the job table, and the schedules with the
\* next_run that registering leaves in them.
StartTimers(scheds, t) ==
    LET armed == {id \in DOMAIN scheds :
                    /\ scheds[id].status = "active"
                    /\ id \in DOMAIN _register_schedule(EmptyMap, id, scheds[id], t)}
    IN  [id \in armed |-> _register_schedule(EmptyMap, id, scheds[id], t)[id]]
StartSchedules(scheds, t) ==
    [id \in DOMAIN scheds |->
        IF scheds[id].status = "active"
        THEN [scheds[id] EXCEPT !.next_run = RegisteredNextRun(scheds[id], t),
            !.next_run_text = RegisteredText(scheds[id], t)]
        ELSE scheds[id]]

\* The record create_schedule stores under id for request cfg at time t, the
\* scheduler running.
Created(id, cfg, t) ==
    LET s0 == [cfg EXCEPT !.id = id, !.created_at = t, !.updated_at = t]
        s1 == [s0 EXCEPT !.next_run = _calculate_next_run(s0, t),
            !.next_run_text = CalculatedText(s0, t)]
    IN  IF s1.status = "active" THEN [s1 EXCEPT !.next_run = RegisteredNextRun(s1, t),
            !.next_run_text = RegisteredText(s1, t)]
        ELSE s1

\* The same with the scheduler not running: nothing is registered.
CreatedStopped(id, cfg, t) ==
    LET s0 == [cfg EXCEPT !.id = id, !.created_at = t, !.updated_at = t]
    IN  [s0 EXCEPT !.next_run = _calculate_next_run(s0, t),
            !.next_run_text = CalculatedText(s0, t)]

IntervalJob == CHOOSE c \in CreateInputs : c.schedule_type = "interval"
OnceJob == CHOOSE c \in CreateInputs : c.schedule_type = "once"

\* The job sets found in schedules.json at startup: one job of any kind, or
\* an interval job and a one-shot job, as an earlier run created them.
PairFile == json_file((1 :> Created(1, IntervalJob, 0)) @@ (2 :> Created(2, OnceJob, 0)), 0)

InitFiles == {json_file(1 :> Created(1, c, 0), 0) : c \in CreateInputs} \cup {PairFile}

\* BackupScheduler.__init__ and start() at time 0.
InitWith(file) ==
    /\ now = 0
    /\ persisted = file
    /\ writable = TRUE
    /\ schedules = StartSchedules(_load_schedules(file), 0)
    /\ timers = StartTimers(_load_schedules(file), 0)
    /\ _running_backup = FALSE
    /\ history = <<>>
    /\ execs = EmptyMap
    /\ nExec = 0
    /\ tasks = <<>>
    /\ procs = EmptyMap
    /\ nextId = Cardinality(DOMAIN schedules)
    /\ nManual = 0
    /\ nUpdates = 0
    /\ running = TRUE
    /\ response = None

Init == \E file \in InitFiles : InitWith(file)

\* ---------------------------------------------------------------- clock
\* The clock is observed every 5 minutes (the floor of interval_minutes).  The
\* event loop wakes at a timer's due time: time passes only when no armed
\* timer is due (or no further firing is modelled).
Tick ==
    /\ now < 5 * MaxTicks
    /\ (nExec < MaxExecs => \A j \in DOMAIN timers : timers[j] > now)
    /\ now' = now + 5
    /\ UNCHANGED <<writable, running, response, schedules, timers, _running_backup, history, persisted, execs,
                   nExec, tasks, procs, nextId, nManual, nUpdates>>

\* ------------------------------------------------------------- job store
\* What BackupScheduler.create_schedule does to the store, the job table and
\* the file; the new id is fresh (a uuid4 prefix).
StoreCreated(cfg) ==
    /\ nextId < MaxJobs
    /\ from_dict_ok(cfg)
    /\ LET id == nextId + 1
           s == IF running THEN Created(id, cfg, now) ELSE CreatedStopped(id, cfg, now)
       IN  /\ schedules' = (id :> s) @@ schedules
           /\ timers' = IF s.status = "active" /\ running
                        THEN _register_schedule(timers, id, s, now)
                        ELSE timers
           /\ persisted' \in _save_schedules(schedules', now)
           /\ nextId' = id

\* BackupScheduler.create_schedule, called on the object itself.
create_schedule(cfg) ==
    /\ StoreCreated(cfg)
    /\ UNCHANGED <<writable, running, response, now, _running_backup, history, execs, nExec, tasks, procs, nManual, nUpdates>>

\* Variant: an update starts the statistics afresh.
ApplyUpdates_ResetStats(s, updates) ==
    [f \in DOMAIN s |->
        IF f \in DOMAIN updates /\ f \notin {"id", "created_at"} THEN updates[f]
        ELSE IF f = "run_count" THEN 0
        ELSE IF f \in {"last_run", "last_status"} THEN None
        ELSE s[f]]

\* Variant: no field is protected.
ApplyUpdates_All(s, updates) ==
    [f \in DOMAIN s |-> IF f \in DOMAIN updates THEN updates[f] ELSE s[f]]

\* The loop of update_schedule over updates.items().
ApplyUpdates(s, updates) ==
    [f \in DOMAIN s |->
        IF f \in DOMAIN updates /\ f \notin {"id", "created_at"} THEN updates[f] ELSE s[f]]

\* BackupScheduler.update_schedule (and pause_schedule, resume_schedule).
update_schedule(id, updates) ==
    IF id \notin DOMAIN schedules
    THEN UNCHANGED vars
    ELSE
    /\ nUpdates < MaxUpdates
    /\ nUpdates' = nUpdates + 1
    /\ LET s0 == ApplyUpdates(schedules[id], updates)
           s1 == [s0 EXCEPT !.updated_at = now,
                            !.next_run = _calculate_next_run(s0, now),
            !.next_run_text = CalculatedText(s0, now)]
           arm == s1.status = "active" /\ running
           s2 == IF arm THEN [s1 EXCEPT !.next_run = RegisteredNextRun(s1, now),
            !.next_run_text = RegisteredText(s1, now)] ELSE s1
       IN  /\ schedules' = [schedules EXCEPT ![id] = s2]
           /\ timers' = IF arm THEN _register_schedule(timers, id, s1, now)
                        ELSE _unregister_schedule(timers, id)
           /\ persisted' \in _save_schedules(schedules', now)
    /\ UNCHANGED <<writable, running, response, now, _running_backup, history, execs, nExec, tasks, procs,
                   nextId, nManual>>

\* What update_schedule returns: the updated job, or None for an id that is
\* not in the store.
update_schedule_returns(id, updates) ==
    IF id \notin DOMAIN schedules THEN None
    ELSE Some(ApplyUpdates(schedules[id], updates).id)

\* BackupScheduler.pause_schedule and resume_schedule.
pause_schedule(id) == update_schedule(id, [status |-> "paused"])
resume_schedule(id) == update_schedule(id, [status |-> "active"])

\* BackupScheduler.get_schedule: dict.get on the store.
get_schedule(id) ==
    IF id \in DOMAIN schedules THEN Some(schedules[id]) ELSE None

\* BackupScheduler.delete_schedule.  A coroutine that holds the deleted
\* object keeps it (obj) and goes on writing to it.
delete_schedule(id) ==
    IF id \notin DOMAIN schedules
    THEN UNCHANGED vars
    ELSE
    /\ timers' = _unregister_schedule(timers, id)
    /\ schedules' = Drop(schedules, id)
    /\ persisted' \in _save_schedules(schedules', now)
    /\ execs' = [e \in DOMAIN execs |->
                    IF execs[e].sid = id /\ execs[e].pc = "wait"
                    THEN [execs[e] EXCEPT !.obj = Some(schedules[id])]
                    ELSE execs[e]]
    /\ UNCHANGED <<writable, running, response, now, _running_backup, history, nExec, tasks, procs, nextId, nManual, nUpdates>>

\* What delete_schedule returns.
delete_schedule_returns(id) == id \in DOMAIN schedules

\* ------------------------------------------------------- POST /api/schedules
\* The bounds that ScheduleCreateRequest puts on interval_minutes.
MinInterval == 5
MaxInterval == 10080

\* ScheduleCreateRequest: what pydantic accepts (else the reply is 422).
RequestModelOk(req) ==
    /\ Len(req.backup_types) >= 1
    /\ IsSome(req.interval_minutes) =>
           Val(req.interval_minutes) >= MinInterval /\ Val(req.interval_minutes) <= MaxInterval
    /\ req.time_of_day # <<>> =>
           /\ Len(req.time_of_day) = 2
           /\ \A i \in 1..2 : req.time_of_day[i] \in 0..99

\* The checks of the create_schedule endpoint (else the reply is 400).
EndpointChecksOk(req) ==
    /\ \A i \in 1..Len(req.backup_types) : req.backup_types[i] \in BackupTypeEnum
    /\ req.schedule_type = "cron" =>
           IsSome(req.cron_expression) /\ Val(req.cron_expression) # ""
    /\ req.schedule_type = "interval" =>
           IsSome(req.interval_minutes) /\ Val(req.interval_minutes) # 0
    /\ req.schedule_type \in {"daily", "weekly", "monthly"} => req.time_of_day # <<>>
    /\ req.schedule_type = "weekly" =>
           IsSome(req.days_of_week) /\ Val(req.days_of_week) # <<>>
    /\ req.schedule_type = "monthly" =>
           IsSome(req.days_of_month) /\ Val(req.days_of_month) # <<>>
    /\ req.schedule_type = "once" => IsSome(req.run_date)

\* The create_schedule endpoint on request req.
api_create_schedule(req) ==
    /\ running
    /\ UNCHANGED <<writable, now, _running_backup, history, execs, nExec, tasks, procs, nManual,
                   nUpdates, running>>
    /\ IF ~RequestModelOk(req)
       THEN /\ response' = Some(422)
            /\ UNCHANGED <<schedules, timers, persisted, nextId>>
       ELSE IF ~EndpointChecksOk(req) \/ ~from_dict_ok(req)
            THEN /\ response' = Some(400)
                 /\ UNCHANGED <<schedules, timers, persisted, nextId>>
            ELSE /\ StoreCreated(req)
                 /\ response' = Some(200)

\* The requests sent: one accepted request per kind used, and requests with
\* missing, empty, out-of-range or malformed recurrence parameters.
WeeklyJob == CHOOSE c \in CreateInputs : c.schedule_type = "weekly"
BadRequests ==
    { [WeeklyJob EXCEPT !.days_of_week = Some(<<>>)],
      [WeeklyJob EXCEPT !.days_of_week = None],
      [BaseConfig EXCEPT !.schedule_type = "monthly", !.time_of_day = <<0, 5>>,
                         !.days_of_month = Some(<<>>)],
      [BaseConfig EXCEPT !.schedule_type = "interval"],
      [BaseConfig EXCEPT !.schedule_type = "interval", !.interval_minutes = Some(1)],
      [BaseConfig EXCEPT !.schedule_type = "cron", !.cron_expression = Some("not a cron")] }
CreateRequests == {IntervalJob, OnceJob, WeeklyJob} \cup BadRequests

\* ------------------------------------------------------- start and restart
\* BackupScheduler.start
start ==
    /\ ~running
    /\ running' = TRUE
    /\ timers' = StartTimers(schedules, now)
    /\ schedules' = StartSchedules(schedules, now)
    /\ UNCHANGED <<writable, now, _running_backup, history, persisted, execs, nExec, tasks, procs,
                   nextId, nManual, nUpdates, response>>

\* The process ends and a new one constructs its BackupScheduler: what was in
\* memory is gone, the store is read from the file.
restart ==
    /\ running
    /\ running' = FALSE
    /\ schedules' = _load_schedules(persisted)
    /\ timers' = EmptyMap
    /\ _running_backup' = FALSE
    /\ history' = <<>>
    /\ execs' = EmptyMap
    /\ procs' = EmptyMap
    /\ tasks' = <<>>
    /\ response' = None
    /\ UNCHANGED <<writable, now, persisted, nExec, nextId, nManual, nUpdates>>

\* ----------------------------------------------------------- task tracker
\* The dict that scheduled_backup_callback and start_backup put in backup_tasks.
NewTask(kind, bt, t, firstLines, isScheduled, sid) ==
    [task_id |-> <<kind, bt, t>>, backup_type |-> bt, status |-> "pending",
     started_at |-> t, completed_at |-> None, output |-> firstLines,
     error |-> None, scheduled |-> isScheduled, schedule_id |-> sid]

\* backup_tasks[tid]: the dict stored last under that id (0 when there is none).
backup_tasks(tk, tid) ==
    LET S == {k \in 1..Len(tk) : tk[k].task_id = tid}
    IN  IF S = {} THEN 0 ELSE CHOOSE k \in S : \A m \in S : m <= k

\* Variant: the entry goes to the tail.
ScheduleHistory_add_AtTail(h, entry) ==
    LET h1 == Append(h, entry)
    IN  IF Len(h1) > max_entries THEN SubSeq(h1, 1, max_entries) ELSE h1

\* Variant: a full history drops the entry just inserted.
ScheduleHistory_add_DropsNewest(h, entry) ==
    LET h1 == <<entry>> \o h
    IN  IF Len(h1) > max_entries THEN SubSeq(h1, 2, max_entries + 1) ELSE h1

\* ScheduleHistory.add
ScheduleHistory_add(h, entry) ==
    LET h1 == <<entry>> \o h
    IN  IF Len(h1) > max_entries THEN SubSeq(h1, 1, max_entries) ELSE h1

\* The Python slice h[:limit].
SliceTo(h, limit) ==
    LET n == IF limit >= 0 THEN limit ELSE Len(h) + limit
    IN  SubSeq(h, 1, IF n > Len(h) THEN Len(h) ELSE IF n < 0 THEN 0 ELSE n)

\* ScheduleHistory.get_recent
get_recent(limit) == SliceTo(history, limit)

\* Variant: the entries are cut to the limit before they are filtered.
get_by_schedule_CutFirst(schedule_id, limit) ==
    LET OfJob(entry) == entry.schedule_id = schedule_id
    IN  SelectSeq(SliceTo(history, limit), OfJob)

\* ScheduleHistory.get_by_schedule
get_by_schedule(schedule_id, limit) ==
    LET OfJob(entry) == entry.schedule_id = schedule_id
    IN  SliceTo(SelectSeq(history, OfJob), limit)

\* BackupScheduler.get_history; schedule_id is None or Some(id).
get_history(schedule_id, limit) ==
    IF schedule_id # None THEN get_by_schedule(Val(schedule_id), limit)
    ELSE get_recent(limit)

\* The key upcoming.sort(key=lambda x: x['next_run']) compares: the text of
\* next_run.  Texts compare character by character: the date first, then the
\* separator, a space (0x20) in a run_date kept as written and "T" (0x54) in
\* an isoformat() text, then the time of day.
next_run_key(x) ==
    LET t == Val(x.next_run)
    IN  (t \div 1440) * (2 * 1440)
          + (IF x.next_run_text = "iso" THEN 1440 ELSE 0) + (t % 1440)

\* list.sort on that key: ascending and stable.
RECURSIVE sort_by_next_run(_)
sort_by_next_run(items) ==
    IF items = <<>> THEN <<>>
    ELSE LET x == Head(items)
             rest == sort_by_next_run(Tail(items))
             k == Cardinality({i \in 1..Len(rest) :
                                 next_run_key(rest[i]) < next_run_key(x)})
         IN  SubSeq(rest, 1, k) \o <<x>> \o SubSeq(rest, k + 1, Len(rest))

\* The upcoming list of get_stats before it is sorted: the active jobs with
\* a next_run, in the order of the store.
RECURSIVE upcoming_from(_)
upcoming_from(ids) ==
    IF ids = {} THEN <<>>
    ELSE LET id == CHOOSE i \in ids : \A j \in ids : i <= j
             s == schedules[id]
             rest == upcoming_from(ids \ {id})
         IN  IF s.status = "active" /\ IsSome(s.next_run)
             THEN <<[id |-> id, next_run |-> s.next_run,
                     next_run_text |-> s.next_run_text,
                     backup_types |-> s.backup_types]>> \o rest
             ELSE rest

\* BackupScheduler.get_stats
get_stats ==
    LET total == Cardinality(DOMAIN schedules)
        active == Cardinality({id \in DOMAIN schedules : schedules[id].status = "active"})
        paused == Cardinality({id \in DOMAIN schedules : schedules[id].status = "paused"})
    IN  [total_schedules |-> total, active |-> active, paused |-> paused,
         disabled |-> total - active - paused,
         scheduler_running |-> running,
         upcoming_runs |-> SliceTo(sort_by_next_run(upcoming_from(DOMAIN schedules)), 5),
         recent_history |-> get_recent(5)]

\* ------------------------------------------------- execution coordinator
\* Variant: the gate is cleared on the success path only.
FinishFiring_GateKeptOnFailure(e, x, outcome, message) ==
    LET inStore == x.sid \in DOMAIN schedules
        obj == IF inStore THEN schedules[x.sid] ELSE Val(x.obj)
        obj1 == IF outcome = "success"
                THEN [obj EXCEPT !.last_run = Some(now), !.run_count = @ + 1,
                                 !.last_status = Some("success"),
                                 !.next_run = _calculate_next_run(obj, now),
                                 !.next_run_text = CalculatedText(obj, now)]
                ELSE [obj EXCEPT !.last_status = Some("failed")]
        entry == [id |-> e, schedule_id |-> x.sid, backup_types |-> obj.backup_types,
                  status |-> outcome, duration_seconds |-> now - x.start_time,
                  message |-> message, timestamp |-> now]
    IN  /\ schedules' = IF inStore THEN [schedules EXCEPT ![x.sid] = obj1] ELSE schedules
        /\ history' = ScheduleHistory_add(history, entry)
        /\ _running_backup' = (outcome # "success")
        /\ persisted' \in _save_schedules(schedules', now)
        /\ execs' = Drop(execs, e)

\* Variant: a failure is counted in run_count as well.
FinishFiring_CountsFailures(e, x, outcome, message) ==
    LET inStore == x.sid \in DOMAIN schedules
        obj == IF inStore THEN schedules[x.sid] ELSE Val(x.obj)
        obj1 == IF outcome = "success"
                THEN [obj EXCEPT !.last_run = Some(now), !.run_count = @ + 1,
                                 !.last_status = Some("success"),
                                 !.next_run = _calculate_next_run(obj, now),
                                 !.next_run_text = CalculatedText(obj, now)]
                ELSE [obj EXCEPT !.last_status = Some("failed"), !.run_count = @ + 1]
        entry == [id |-> e, schedule_id |-> x.sid, backup_types |-> obj.backup_types,
                  status |-> outcome, duration_seconds |-> now - x.start_time,
                  message |-> message, timestamp |-> now]
    IN  /\ schedules' = IF inStore THEN [schedules EXCEPT ![x.sid] = obj1] ELSE schedules
        /\ history' = ScheduleHistory_add(history, entry)
        /\ _running_backup' = FALSE
        /\ persisted' \in _save_schedules(schedules', now)
        /\ execs' = Drop(execs, e)

\* Variant: the object the coroutine holds is put back into the store.
FinishFiring_Resurrects(e, x, outcome, message) ==
    LET inStore == x.sid \in DOMAIN schedules
        obj == IF inStore THEN schedules[x.sid] ELSE Val(x.obj)
        obj1 == IF outcome = "success"
                THEN [obj EXCEPT !.last_run = Some(now), !.run_count = @ + 1,
                                 !.last_status = Some("success"),
                                 !.next_run = _calculate_next_run(obj, now),
                                 !.next_run_text = CalculatedText(obj, now)]
                ELSE [obj EXCEPT !.last_status = Some("failed")]
        entry == [id |-> e, schedule_id |-> x.sid, backup_types |-> obj.backup_types,
                  status |-> outcome, duration_seconds |-> now - x.start_time,
                  message |-> message, timestamp |-> now]
    IN  /\ schedules' = (x.sid :> obj1) @@ schedules
        /\ history' = ScheduleHistory_add(history, entry)
        /\ _running_backup' = FALSE
        /\ persisted' \in _save_schedules(schedules', now)
        /\ execs' = Drop(execs, e)

\* Variant: the except branch is passed by, a failure leaves no entry.
FinishFiring_RaisesThrough(e, x, outcome, message) ==
    LET inStore == x.sid \in DOMAIN schedules
        obj == IF inStore THEN schedules[x.sid] ELSE Val(x.obj)
        obj1 == IF outcome = "success"
                THEN [obj EXCEPT !.last_run = Some(now), !.run_count = @ + 1,
                                 !.last_status = Some("success"),
                                 !.next_run = _calculate_next_run(obj, now),
                                 !.next_run_text = CalculatedText(obj, now)]
                ELSE [obj EXCEPT !.last_status = Some("failed")]
        entry == [id |-> e, schedule_id |-> x.sid, backup_types |-> obj.backup_types,
                  status |-> outcome, duration_seconds |-> now - x.start_time,
                  message |-> message, timestamp |-> now]
    IN  /\ schedules' = IF inStore THEN [schedules EXCEPT ![x.sid] = obj1] ELSE schedules
        /\ history' = IF outcome = "success" THEN ScheduleHistory_add(history, entry)
                      ELSE history
        /\ _running_backup' = FALSE
        /\ persisted' \in _save_schedules(schedules', now)
        /\ execs' = Drop(execs, e)

\* The end of _execute_scheduled_backup for coroutine e (record x): the
\* statistics or the except branch, the history entry, then the finally block.
FinishFiring(e, x, outcome, message) ==
    LET inStore == x.sid \in DOMAIN schedules
        obj == IF inStore THEN schedules[x.sid] ELSE Val(x.obj)
        obj1 == IF outcome = "success"
                THEN [obj EXCEPT !.last_run = Some(now), !.run_count = @ + 1,
                                 !.last_status = Some("success"),
                                 !.next_run = _calculate_next_run(obj, now),
                                 !.next_run_text = CalculatedText(obj, now)]
                ELSE [obj EXCEPT !.last_status = Some("failed")]
        entry == [id |-> e, schedule_id |-> x.sid, backup_types |-> obj.backup_types,
                  status |-> outcome, duration_seconds |-> now - x.start_time,
                  message |-> message, timestamp |-> now]
    IN  /\ schedules' = IF inStore THEN [schedules EXCEPT ![x.sid] = obj1] ELSE schedules
        /\ history' = ScheduleHistory_add(history, entry)
        /\ _running_backup' = FALSE
        /\ persisted' \in _save_schedules(schedules', now)
        /\ execs' = Drop(execs, e)

\* Variant: the list is walked from its end.
Advance_Reversed(e, x, i, tk, pr) ==
    IF i > Len(x.types)
    THEN /\ tasks' = tk
         /\ procs' = pr
         /\ FinishFiring(e, x, "success", "Backup completado correctamente")
    ELSE LET bt == x.types[Len(x.types) + 1 - i]
             d == NewTask("scheduled", bt, now, <<"scheduled start">>, TRUE, x.sid)
             k == Len(tk) + 1
         IN  IF bt \in BackupTypeEnum
             THEN /\ tasks' = Append(tk, [d EXCEPT !.status = "running"])
                  /\ procs' = (k :> [pc |-> "running", task |-> k, lines |-> 0,
                                     owner |-> e]) @@ pr
                  /\ execs' = (e :> [x EXCEPT !.pc = "wait", !.idx = i,
                                                !.ran = Append(@, k)]) @@ Drop(execs, e)
                  /\ _running_backup' = TRUE
                  /\ UNCHANGED <<schedules, history, persisted>>
             ELSE /\ tasks' = Append(tk, d)
                  /\ procs' = pr
                  /\ FinishFiring(e, [x EXCEPT !.ran = Append(@, k)], "failed",
                                  "not a valid BackupType")

\* The loop of _execute_scheduled_backup from the i-th type on, up to its next
\* suspension: scheduled_backup_callback for that type (the task dict, then
\* BackupType(backup_type), then run_backup_script up to the spawn), or the end
\* of the firing.  tk and pr are the task dicts and coroutines so far.
Advance(e, x, i, tk, pr) ==
    IF i > Len(x.types)
    THEN /\ tasks' = tk
         /\ procs' = pr
         /\ FinishFiring(e, x, "success", "Backup completado correctamente")
    ELSE LET bt == x.types[i]
             d == NewTask("scheduled", bt, now, <<"scheduled start">>, TRUE, x.sid)
             k == Len(tk) + 1
         IN  IF bt \in BackupTypeEnum
             THEN /\ tasks' = Append(tk, [d EXCEPT !.status = "running"])
                  /\ procs' = (k :> [pc |-> "running", task |-> k, lines |-> 0,
                                     owner |-> e]) @@ pr
                  /\ execs' = (e :> [x EXCEPT !.pc = "wait", !.idx = i,
                                                !.ran = Append(@, k)]) @@ Drop(execs, e)
                  /\ _running_backup' = TRUE
                  /\ UNCHANGED <<schedules, history, persisted>>
             ELSE /\ tasks' = Append(tk, d)
                  /\ procs' = pr
                  /\ FinishFiring(e, [x EXCEPT !.ran = Append(@, k)], "failed",
                                  "not a valid BackupType")

\* Variant: the gate is not consulted.
FiringProceeds_GateIgnored(sid) ==
    /\ sid \in DOMAIN schedules
    /\ schedules[sid].status = "active"

\* Variant: the status is not consulted.
FiringProceeds_StatusIgnored(sid) ==
    /\ sid \in DOMAIN schedules
    /\ ~_running_backup

\* The checks at the head of _execute_scheduled_backup.
FiringProceeds(sid) ==
    /\ sid \in DOMAIN schedules
    /\ schedules[sid].status = "active"
    /\ ~_running_backup

\* Variant: an early return runs the finally block and clears the gate.
SkipFiring_ClearsGate(e) ==
    /\ execs' = Drop(execs, e)
    /\ _running_backup' = FALSE
    /\ UNCHANGED <<schedules, history, persisted, tasks, procs>>

\* The early returns of _execute_scheduled_backup: the coroutine ends.
SkipFiring(e) ==
    /\ execs' = Drop(execs, e)
    /\ UNCHANGED <<schedules, _running_backup, history, persisted, tasks, procs>>

\* Variant: the coroutine checks the store and the status only.
ExecStart_Ungated(e) ==
    /\ e \in DOMAIN execs
    /\ execs[e].pc = "start"
    /\ UNCHANGED <<writable, running, response, now, timers, nExec, nextId, nManual, nUpdates>>
    /\ IF ~(execs[e].sid \in DOMAIN schedules /\ schedules[execs[e].sid].status = "active")
       THEN SkipFiring(e)
       ELSE LET s == schedules[execs[e].sid]
                x == [execs[e] EXCEPT !.start_time = now]
            IN  IF s.sequential_execution
                THEN Advance(e, [x EXCEPT !.types = s.backup_types], 1, tasks, procs)
                ELSE IF s.backup_types = <<>>
                     THEN /\ UNCHANGED <<tasks, procs>>
                          /\ FinishFiring(e, x, "failed", "list index out of range")
                     ELSE Advance(e, [x EXCEPT !.types = <<s.backup_types[1]>>], 1,
                                  tasks, procs)

\* _execute_scheduled_backup from its start to its first suspension.
ExecStart(e) ==
    /\ e \in DOMAIN execs
    /\ execs[e].pc = "start"
    /\ UNCHANGED <<writable, running, response, now, timers, nExec, nextId, nManual, nUpdates>>
    /\ IF ~FiringProceeds(execs[e].sid)
       THEN SkipFiring(e)
       ELSE LET s == schedules[execs[e].sid]
                x == [execs[e] EXCEPT !.start_time = now]
            IN  IF s.sequential_execution
                THEN Advance(e, [x EXCEPT !.types = s.backup_types], 1, tasks, procs)
                ELSE IF s.backup_types = <<>>
                     THEN /\ UNCHANGED <<tasks, procs>>
                          /\ FinishFiring(e, x, "failed", "list index out of range")
                     ELSE Advance(e, [x EXCEPT !.types = <<s.backup_types[1]>>], 1,
                                  tasks, procs)

\* A coroutine of _execute_scheduled_backup: its schedule id, who created it
\* and for which fire time, where it stands (start: not yet run; wait:
\* awaiting the callback of types[idx]), the list it iterates, the task
\* dicts its callbacks created (ran), and the schedule object once that is
\* no longer in the store (obj).
NewExec(sid, origin, firedAt) ==
    [sid |-> sid, origin |-> origin, fired_at |-> firedAt, pc |-> "start",
     types |-> <<>>, idx |-> 0, ran |-> <<>>, start_time |-> 0, obj |-> None]

\* The APScheduler job of schedule j comes due: the job table moves to the
\* trigger's next fire time (a date trigger has none: the job is removed) and
\* the coroutine is submitted unless an instance of the job is still running
\* (max_instances = 1).
TimerFire(j) ==
    /\ j \in DOMAIN timers
    /\ timers[j] <= now
    /\ nExec < MaxExecs
    /\ LET trig == _get_trigger(schedules[j], now)
           nxt == get_next_fire_time(trig, Some(timers[j]), now)
           busy == \E e \in DOMAIN execs : execs[e].sid = j /\ execs[e].origin = "timer"
       IN  /\ timers' = IF IsSome(nxt) THEN [timers EXCEPT ![j] = Val(nxt)]
                        ELSE Drop(timers, j)
           /\ execs' = IF busy THEN execs
                       ELSE (nExec + 1 :> NewExec(j, "timer", timers[j])) @@ execs
           /\ nExec' = IF busy THEN nExec ELSE nExec + 1
    /\ UNCHANGED <<writable, running, response, now, schedules, _running_backup, history, persisted, tasks, procs,
                   nextId, nManual, nUpdates>>

\* BackupScheduler.run_now on a stored id.
\* run_now without the membership test.
run_now_Unchecked(id) ==
    /\ nExec < MaxExecs
    /\ execs' = (nExec + 1 :> NewExec(id, "run_now", now)) @@ execs
    /\ nExec' = nExec + 1
    /\ UNCHANGED <<writable, running, response, now, schedules, timers, _running_backup, history, persisted, tasks,
                   procs, nextId, nManual, nUpdates>>

run_now(id) ==
    IF id \notin DOMAIN schedules
    THEN UNCHANGED vars
    ELSE
    /\ nExec < MaxExecs
    /\ execs' = (nExec + 1 :> NewExec(id, "run_now", now)) @@ execs
    /\ nExec' = nExec + 1
    /\ UNCHANGED <<writable, running, response, now, schedules, timers, _running_backup, history, persisted, tasks,
                   procs, nextId, nManual, nUpdates>>

\* What run_now returns.
run_now_returns(id) == id \in DOMAIN schedules

\* ------------------------------------------------------ run_backup_script
ManualTypes == {"mongodb"}

\* POST /api/backup/{backup_type}
start_backup(bt) ==
    /\ nManual < MaxManual
    /\ nManual' = nManual + 1
    /\ tasks' = Append(tasks, NewTask("backup", bt, now, <<>>, FALSE, 0))
    /\ procs' = (Len(tasks) + 1 :> [pc |-> "queued", task |-> 0, lines |-> 0,
                                    owner |-> 0]) @@ procs
    /\ UNCHANGED <<writable, running, response, now, schedules, timers, _running_backup, history, persisted, execs,
                   nExec, nextId, nUpdates>>

\* The background task starts run_backup_script: it looks its dict up by id.
RunStart(p) ==
    /\ p \in DOMAIN procs
    /\ procs[p].pc = "queued"
    /\ LET k == backup_tasks(tasks, tasks[p].task_id)
       IN  /\ tasks' = [tasks EXCEPT ![k].status = "running"]
           /\ procs' = [procs EXCEPT ![p].pc = "running", ![p].task = k]
    /\ UNCHANGED <<writable, running, response, now, schedules, timers, _running_backup, history, persisted, execs,
                   nExec, nextId, nManual, nUpdates>>

\* process.stdout.readline() returns a non-empty line.
ProcLine(p) ==
    /\ p \in DOMAIN procs
    /\ procs[p].pc = "running"
    /\ procs[p].lines < MaxLines
    /\ tasks' = [tasks EXCEPT ![procs[p].task].output = Append(@, "line")]
    /\ procs' = [procs EXCEPT ![p].lines = @ + 1]
    /\ UNCHANGED <<writable, running, response, now, schedules, timers, _running_backup, history, persisted, execs,
                   nExec, nextId, nManual, nUpdates>>

\* The task dict when run_backup_script ends: the exit code, or the exception
\* of a spawn that failed (code -1 here).
Completed(d, code) ==
    IF code = 0 THEN [d EXCEPT !.status = "completed", !.completed_at = Some(now)]
    ELSE [d EXCEPT !.status = "failed",
                   !.error = Some(IF code > 0 THEN <<"Exit code", code>>
                                  ELSE <<"exception", "spawn failed">>),
                   !.completed_at = Some(now)]

\* run_backup_script returns: the stream closed and the process exited with
\* `code`, or (code = -1, nothing read yet) the spawn raised.  The awaiting
\* firing, if any, goes on with its next type.
ProcEnd(p, code) ==
    /\ p \in DOMAIN procs
    /\ procs[p].pc = "running"
    /\ code = -1 => procs[p].lines = 0
    /\ UNCHANGED <<writable, running, response, now, timers, nExec, nextId, nManual, nUpdates>>
    /\ LET tk == [tasks EXCEPT ![procs[p].task] = Completed(@, code)]
           pr == Drop(procs, p)
           e == procs[p].owner
       IN  IF e = 0
           THEN /\ tasks' = tk
                /\ procs' = pr
                /\ UNCHANGED <<schedules, _running_backup, history, persisted, execs>>
           ELSE Advance(e, execs[e], execs[e].idx + 1, tk, pr)

ExitCodes == {0, 1, -1}

\* ----------------------------------------------------- run_restore_script
RestoreStamps == {"20240101_000000"}

\* POST /api/restore
start_restore(timestamp) ==
    /\ nManual < MaxManual
    /\ nManual' = nManual + 1
    /\ tasks' = Append(tasks, [NewTask("restore", timestamp, now, <<>>, FALSE, 0)
                                  EXCEPT !.backup_type = "restore"])
    /\ procs' = (Len(tasks) + 1 :> [pc |-> "restore_queued", task |-> 0, lines |-> 0,
                                    owner |-> 0, codes |-> <<>>]) @@ procs
    /\ UNCHANGED <<writable, running, response, now, schedules, timers, _running_backup, history, persisted, execs,
                   nExec, nextId, nUpdates>>

\* The background task starts run_restore_script: it looks its dict up by id.
RestoreStart(p) ==
    /\ p \in DOMAIN procs
    /\ procs[p].pc = "restore_queued"
    /\ LET k == backup_tasks(tasks, tasks[p].task_id)
       IN  /\ tasks' = [tasks EXCEPT ![k].status = "running"]
           /\ procs' = [procs EXCEPT ![p].pc = "restoring", ![p].task = k]
    /\ UNCHANGED <<writable, running, response, now, schedules, timers, _running_backup, history, persisted, execs,
                   nExec, nextId, nManual, nUpdates>>

\* One volume of the loop: the tar process exits with `code` and a line says
\* which way it went, or (code = -1) the spawn raises and the except branch
\* ends the task.
RestoreVolume(p, code) ==
    /\ p \in DOMAIN procs
    /\ procs[p].pc = "restoring"
    /\ procs[p].lines < MaxLines
    /\ IF code = -1
       THEN /\ tasks' = [tasks EXCEPT ![procs[p].task] =
                            [@ EXCEPT !.status = "failed",
                                      !.error = Some(<<"exception", "spawn failed">>),
                                      !.completed_at = Some(now)]]
            /\ procs' = Drop(procs, p)
       ELSE /\ tasks' = [tasks EXCEPT ![procs[p].task].output =
                            Append(@, IF code = 0 THEN "restored" ELSE "not restored")]
            /\ procs' = [procs EXCEPT ![p].lines = @ + 1, ![p].codes = Append(@, code)]
    /\ UNCHANGED <<writable, running, response, now, schedules, timers, _running_backup, history, persisted, execs,
                   nExec, nextId, nManual, nUpdates>>

\* The loops of run_restore_script are done.
RestoreEnd(p) ==
    /\ p \in DOMAIN procs
    /\ procs[p].pc = "restoring"
    /\ tasks' = [tasks EXCEPT ![procs[p].task] =
                    [@ EXCEPT !.status = "completed", !.completed_at = Some(now)]]
    /\ procs' = Drop(procs, p)
    /\ UNCHANGED <<writable, running, response, now, schedules, timers, _running_backup, history, persisted, execs,
                   nExec, nextId, nManual, nUpdates>>

\* The firing slice: a job set loaded at startup, then timers, run_now,
\* updates and deletes around the executions.
Next ==
    \/ Tick
    \/ \E id \in JobIds, u \in UpdateInputs : update_schedule(id, u)
    \/ \E id \in JobIds : delete_schedule(id)
    \/ \E id \in JobIds : run_now(id)
    \/ \E j \in DOMAIN timers : TimerFire(j)
    \/ \E e \in DOMAIN execs : ExecStart(e)
    \/ \E p \in DOMAIN procs, code \in {0, 1} : ProcEnd(p, code)

Spec == Init /\ [][Next]_vars

\* Every external process ends (the scripts terminate) and the event loop
\* resumes the coroutine that awaits it.
InitFair == InitWith(PairFile)

FairSpec ==
    /\ InitFair
    /\ [][Next]_vars
    /\ WF_vars(\E p \in DOMAIN procs, code \in {0, 1} : ProcEnd(p, code))

\* The store slice: a scheduler constructed on a file and not yet started,
\* then requests, updates, deletes, restarts and the timers.
StoreUpdates ==
    { [status |-> "paused"], [status |-> "active"], [status |-> "disabled"],
      [interval_minutes |-> Some(1)],
      [schedule_type |-> "weekly"],
      [backup_types |-> <<>>],
      [id |-> 9, created_at |-> 3, run_count |-> 7] }

PausedFile ==
    json_file(1 :> [Created(1, IntervalJob, 0) EXCEPT !.status = "paused"], 0)

StoreFiles == {None, PausedFile}

InitStore ==
    \E file \in StoreFiles :
        /\ now = 0
        /\ persisted = file
    /\ writable = TRUE
        /\ schedules = _load_schedules(file)
        /\ timers = EmptyMap
        /\ _running_backup = FALSE
        /\ history = <<>>
        /\ execs = EmptyMap
        /\ nExec = 0
        /\ tasks = <<>>
        /\ procs = EmptyMap
        /\ nextId = Cardinality(DOMAIN schedules)
        /\ nManual = 0
        /\ nUpdates = 0
        /\ running = FALSE
        /\ response = None

NextStore ==
    \/ start
    \/ restart
    \/ Tick
    \/ \E req \in CreateRequests : api_create_schedule(req)
    \/ \E cfg \in {IntervalJob, OnceJob} : ~running /\ create_schedule(cfg)
    \/ \E id \in JobIds, u \in StoreUpdates : update_schedule(id, u)
    \/ \E id \in JobIds : delete_schedule(id)
    \/ \E j \in DOMAIN timers : TimerFire(j)
    \/ \E e \in DOMAIN execs : ExecStart(e)
    \/ \E p \in DOMAIN procs : ProcEnd(p, 0)

SpecStore == InitStore /\ [][NextStore]_vars

\* The disk slice: a file that may hold a record of an unknown kind, and
\* writes that fail while the disk is full or read-only.
DiskFault ==
    /\ writable
    /\ writable' = FALSE
    /\ UNCHANGED <<now, schedules, timers, _running_backup, history, persisted, execs,
                   nExec, tasks, procs, nextId, nManual, nUpdates, running, response>>

DiskRepair ==
    /\ ~writable
    /\ writable' = TRUE
    /\ UNCHANGED <<now, schedules, timers, _running_backup, history, persisted, execs,
                   nExec, tasks, procs, nextId, nManual, nUpdates, running, response>>

\* schedules.json with the schedule_type of record id replaced by a string
\* that names no ScheduleType.
BadKind(file, id) ==
    Some([Val(file) EXCEPT !.schedules[id].schedule_type = <<"string", "hourly">>])

DiskFiles == {PairFile, BadKind(PairFile, 1), BadKind(PairFile, 2)}

DiskUpdates == {[status |-> "paused"], [status |-> "active"]}

InitDisk == \E file \in DiskFiles : InitWith(file)

NextDisk ==
    \/ DiskFault
    \/ DiskRepair
    \/ start
    \/ restart
    \/ Tick
    \/ api_create_schedule(IntervalJob)
    \/ \E id \in JobIds, u \in DiskUpdates : update_schedule(id, u)
    \/ \E id \in JobIds : delete_schedule(id)
    \/ \E j \in DOMAIN timers : TimerFire(j)
    \/ \E e \in DOMAIN execs : ExecStart(e)
    \/ \E p \in DOMAIN procs : ProcEnd(p, 0)

SpecDisk == InitDisk /\ [][NextDisk]_vars

\* The history slice: the firings of two jobs in a process whose history is
\* empty, one short of full, or full of the entries of earlier firings.
HistoryFills == {0, max_entries - 1, max_entries}

\* The entry of the k-th latest of the earlier firings, all successes at
\* time 0, of job 1 and job 2 in turn.
OldEntry(k) ==
    [id |-> 0 - k, schedule_id |-> 1 + (k % 2),
     backup_types |-> IF k % 2 = 0 THEN IntervalJob.backup_types ELSE OnceJob.backup_types,
     status |-> "success", duration_seconds |-> 0,
     message |-> "Backup completado correctamente", timestamp |-> 0]

OldHistory(n) == [k \in 1..n |-> OldEntry(k)]

\* The record of a job that has run k times at time 0.
Ran(s, k) ==
    IF k = 0 THEN s
    ELSE [s EXCEPT !.run_count = k, !.last_run = Some(0), !.last_status = Some("success")]

RanFile(n) ==
    json_file((1 :> Ran(Created(1, IntervalJob, 0), n \div 2))
              @@ (2 :> Ran(Created(2, OnceJob, 0), (n + 1) \div 2)), 0)

InitHistory ==
    \E n \in HistoryFills :
        /\ now = 0
        /\ persisted = RanFile(n)
        /\ writable = TRUE
        /\ schedules = StartSchedules(_load_schedules(RanFile(n)), 0)
        /\ timers = StartTimers(_load_schedules(RanFile(n)), 0)
        /\ _running_backup = FALSE
        /\ history = OldHistory(n)
        /\ execs = EmptyMap
        /\ nExec = 0
        /\ tasks = <<>>
        /\ procs = EmptyMap
        /\ nextId = 2
        /\ nManual = 0
        /\ nUpdates = 0
        /\ running = TRUE
        /\ response = None

NextHistory ==
    \/ Tick
    \/ \E id \in JobIds : run_now(id)
    \/ \E j \in DOMAIN timers : TimerFire(j)
    \/ \E e \in DOMAIN execs : ExecStart(e)
    \/ \E p \in DOMAIN procs, code \in {0, 1} : ProcEnd(p, code)

SpecHistory == InitHistory /\ [][NextHistory]_vars

\* The next-run slice: a process constructed at some reference time on a
\* file written at time 0, then start, pause and resume, which compute
\* next_run at that time.
\* 00:00, 00:05, 01:55, 02:00, 02:05 and 10:00 of 2024-01-01 (a Monday),
\* 23:55 of 2024-01-07 (a Sunday) and of 2024-01-31.
RefTimes == {0, 5, 115, 120, 125, 600, 6 * 1440 + 1435, 30 * 1440 + 1435}

\* A daily job at 02:00.
DailyAtTwo ==
    [BaseConfig EXCEPT !.schedule_type = "daily", !.time_of_day = <<2, 0>>]

CalcFiles == InitFiles \cup {json_file(1 :> Created(1, DailyAtTwo, 0), 0)}

InitCalc ==
    \E file \in CalcFiles, t \in RefTimes :
        /\ now = t
        /\ persisted = file
        /\ writable = TRUE
        /\ schedules = _load_schedules(file)
        /\ timers = EmptyMap
        /\ _running_backup = FALSE
        /\ history = <<>>
        /\ execs = EmptyMap
        /\ nExec = 0
        /\ tasks = <<>>
        /\ procs = EmptyMap
        /\ nextId = Cardinality(DOMAIN schedules)
        /\ nManual = 0
        /\ nUpdates = 0
        /\ running = FALSE
        /\ response = None

NextCalc ==
    \/ start
    \/ Tick
    \/ \E id \in JobIds : pause_schedule(id)
    \/ \E id \in JobIds : resume_schedule(id)
    \/ \E id \in JobIds : delete_schedule(id)

SpecCalc == InitCalc /\ [][NextCalc]_vars

\* The load slice: the files of the disk slice and its operations, every
\* write succeeding.
NextLoad ==
    \/ start
    \/ restart
    \/ Tick
    \/ api_create_schedule(IntervalJob)
    \/ \E id \in JobIds, u \in DiskUpdates : update_schedule(id, u)
    \/ \E id \in JobIds : delete_schedule(id)
    \/ \E j \in DOMAIN timers : TimerFire(j)
    \/ \E e \in DOMAIN execs : ExecStart(e)
    \/ \E p \in DOMAIN procs : ProcEnd(p, 0)

SpecLoad == InitDisk /\ [][NextLoad]_vars

\* The statistics slice: an interval job next to a one-shot job for 10:00 of
\* the first day, under every operation.
OnceAtTen == [BaseConfig EXCEPT !.schedule_type = "once", !.run_date = Some(600)]

StatsFile ==
    json_file((1 :> Created(1, IntervalJob, 0)) @@ (2 :> Created(2, OnceAtTen, 0)), 0)

InitStats == InitWith(StatsFile)

SpecStats == InitStats /\ [][Next]_vars

\* The runner slice: manual backups and restores, no job in the store.
NextRunner ==
    \/ Tick
    \/ \E bt \in ManualTypes : start_backup(bt)
    \/ \E p \in DOMAIN procs : RunStart(p)
    \/ \E p \in DOMAIN procs : ProcLine(p)
    \/ \E p \in DOMAIN procs, code \in ExitCodes : ProcEnd(p, code)
    \/ \E ts \in RestoreStamps : start_restore(ts)
    \/ \E p \in DOMAIN procs : RestoreStart(p)
    \/ \E p \in DOMAIN procs, code \in ExitCodes : RestoreVolume(p, code)
    \/ \E p \in DOMAIN procs : RestoreEnd(p)

InitRunner == InitWith(None)

SpecRunner == InitRunner /\ [][NextRunner]_vars

\* The task slice: the firings of the loaded jobs next to one manual dispatch.
NextTasks ==
    \/ Tick
    \/ \E id \in JobIds : run_now(id)
    \/ \E j \in DOMAIN timers : TimerFire(j)
    \/ \E e \in DOMAIN execs : ExecStart(e)
    \/ \E bt \in ManualTypes : nManual = 0 /\ start_backup(bt)
    \/ \E p \in DOMAIN procs : RunStart(p)
    \/ \E p \in DOMAIN procs : ProcLine(p)
    \/ \E p \in DOMAIN procs, code \in ExitCodes : ProcEnd(p, code)

\* The task slice starts from the one-shot job alone.
InitTasks == InitWith(json_file(1 :> Created(1, OnceJob, 0), 0))

SpecTasks == InitTasks /\ [][NextTasks]_vars

\* ================================================================ claims
Holders == {e \in DOMAIN execs : execs[e].pc = "wait"}
Active(sid) == sid \in DOMAIN schedules /\ schedules[sid].status = "active"

\* Coroutine e runs from its start and finds the gate set.
GateSkip(e) ==
    /\ execs[e].pc = "start"
    /\ Active(execs[e].sid)
    /\ _running_backup
    /\ (e \in DOMAIN execs' => execs'[e] # execs[e])

\* Coroutine e runs from its start and its job is not in the store or not
\* active.
InactiveSkip(e) ==
    /\ execs[e].pc = "start"
    /\ ~Active(execs[e].sid)
    /\ (e \in DOMAIN execs' => execs'[e] # execs[e])

\* Coroutine e, past the gate, ends in this step.
FiringEnds(e) ==
    /\ e \notin DOMAIN execs'
    /\ \/ execs[e].pc = "wait"
       \/ execs[e].pc = "start" /\ Active(execs[e].sid) /\ ~_running_backup

\* C1: at most one execution is between setting and clearing the gate, and
\* the gate is set exactly while there is one.
C1_GateMutualExclusion ==
    /\ Cardinality(Holders) <= 1
    /\ _running_backup <=> Holders # {}

\* Two jobs fired at the same instant: one holds the gate, the coroutine of
\* the other is about to run.
C1_Witness ==
    \E e1 \in Holders, e2 \in DOMAIN execs :
        /\ execs[e2].pc = "start"
        /\ execs[e1].sid # execs[e2].sid
        /\ execs[e1].origin = "timer" /\ execs[e2].origin = "timer"
        /\ execs[e1].fired_at = execs[e2].fired_at
        /\ Active(execs[e2].sid)

Running == {p \in DOMAIN procs : procs[p].pc = "running"}

C4_FailureHalts ==
    \A e \in Holders :
        \A i \in 1..(Len(execs[e].ran) - 1) : tasks[execs[e].ran[i]].status # "failed"

\* C5 as stated: a firing one of whose script runs failed ends with a failed
\* history entry and last_status failed.
C5_FailureRecorded ==
    [][\A e \in DOMAIN execs :
          (/\ FiringEnds(e)
           /\ \E i \in 1..Len(execs[e].ran) : tasks'[execs[e].ran[i]].status = "failed")
          => /\ history'[1].status = "failed"
             /\ execs[e].sid \in DOMAIN schedules'
                  => schedules'[execs[e].sid].last_status = Some("failed")]_vars

\* Coroutine e ends in this step through the except branch.
RaisedEnd(e) ==
    /\ FiringEnds(e)
    /\ \/ execs[e].pc = "wait" /\ execs[e].idx < Len(execs[e].types)
       \/ /\ execs[e].pc = "start"
          /\ LET s == schedules[execs[e].sid]
             IN  \/ ~s.sequential_execution /\ s.backup_types = <<>>
                 \/ s.backup_types # <<>> /\ s.backup_types[1] \notin BackupTypeEnum

\* C6 as stated: a firing that ends through the except branch leaves
\* last_status failed, a recomputed next_run, and one failed entry carrying
\* the message at the head of the history.
C6_FailureBookkeeping ==
    [][\A e \in DOMAIN execs :
          RaisedEnd(e) =>
            /\ history' = <<history'[1]>> \o history
            /\ history'[1].status = "failed"
            /\ history'[1].message \in {"not a valid BackupType", "list index out of range"}
            /\ execs[e].sid \in DOMAIN schedules' =>
                 /\ schedules'[execs[e].sid].last_status = Some("failed")
                 /\ schedules'[execs[e].sid].next_run
                      = _calculate_next_run(schedules'[execs[e].sid], now)]_vars

\* Coroutine e ends in this step with every invoked type returned.
CleanEnd(e) ==
    /\ FiringEnds(e)
    /\ \/ execs[e].pc = "wait" /\ execs[e].idx = Len(execs[e].types)
       \/ /\ execs[e].pc = "start"
          /\ schedules[execs[e].sid].sequential_execution
          /\ schedules[execs[e].sid].backup_types = <<>>

\* C7: a firing whose invoked types all returned adds 1 to run_count, sets
\* last_status success and last_run, recomputes and stores next_run, and puts
\* one success entry at the head of the history.
C7_SuccessBookkeeping ==
    [][\A e \in DOMAIN execs :
          CleanEnd(e) =>
            /\ history' = <<history'[1]>> \o history
            /\ history'[1].status = "success"
            /\ history'[1].schedule_id = execs[e].sid
            /\ execs[e].sid \in DOMAIN schedules =>
                 LET old == schedules[execs[e].sid]
                     new == schedules'[execs[e].sid]
                 IN  /\ new.run_count = old.run_count + 1
                     /\ new.last_status = Some("success")
                     /\ new.last_run = Some(now)
                     /\ new.next_run = _calculate_next_run(old, now)
                     /\ new = [old EXCEPT !.run_count = new.run_count,
                                          !.last_status = new.last_status,
                                          !.last_run = new.last_run,
                                          !.next_run = new.next_run,
                                          !.next_run_text = new.next_run_text]
                     /\ FileJobs(persisted') = schedules']_vars

\* One firing of a fresh job ended in success: run_count 1 and one entry.
C7_Witness ==
    \E id \in DOMAIN schedules :
        /\ schedules[id].run_count = 1
        /\ schedules[id].last_status = Some("success")
        /\ Len(history) = 1
        /\ history[1].schedule_id = id
        /\ history[1].status = "success"

\* C8: a firing that finds the gate set changes nothing but its own end: no
\* callback, no history entry, no job field, no write of the file, the gate
\* stays set, and nothing of it stays behind; and clearing the gate starts
\* no coroutine.
C8_GateSkipNoOp ==
    [][/\ \A e \in DOMAIN execs :
            GateSkip(e) =>
              /\ UNCHANGED <<schedules, timers, history, persisted, tasks, procs>>
              /\ _running_backup'
              /\ execs' = Drop(execs, e)
       /\ (_running_backup /\ ~_running_backup') =>
              \A e \in DOMAIN execs' : e \in DOMAIN execs /\ execs'[e] = execs[e]]_vars

\* A second coroutine was created and has gone while the first still holds
\* the gate, with no job paused, updated or deleted and no firing ended.
C8_Witness ==
    /\ _running_backup
    /\ nExec = 2
    /\ Cardinality(DOMAIN execs) = 1
    /\ history = <<>>
    /\ nUpdates = 0
    /\ Cardinality(DOMAIN schedules) = nextId

\* C9 as stated: after a timer firing was skipped for the gate, the job's
\* timer is armed for a later fire time, whatever the recurrence kind.
C9_Original ==
    [][\A e \in DOMAIN execs :
          (GateSkip(e) /\ execs[e].origin = "timer")
          => /\ execs[e].sid \in DOMAIN timers'
             /\ timers'[execs[e].sid] > execs[e].fired_at]_vars

\* C9 amended: the same for every kind but the one-shot.
C9_RecurringRearmed ==
    [][\A e \in DOMAIN execs :
          (/\ GateSkip(e)
           /\ execs[e].origin = "timer"
           /\ schedules[execs[e].sid].schedule_type # "once")
          => /\ execs[e].sid \in DOMAIN timers'
             /\ timers'[execs[e].sid] > execs[e].fired_at]_vars

\* The timer firing of a recurring job is about to be skipped for the gate.
C9_Witness ==
    \E e \in DOMAIN execs :
        /\ execs[e].pc = "start"
        /\ execs[e].origin = "timer"
        /\ Active(execs[e].sid)
        /\ schedules[execs[e].sid].schedule_type \in {"weekly", "monthly"}
        /\ _running_backup

\* C10: a firing for a job that is not active, or no longer stored, changes
\* nothing but its own end.
C10_InactiveNoOp ==
    [][\A e \in DOMAIN execs :
          InactiveSkip(e) =>
            /\ UNCHANGED <<schedules, timers, _running_backup, history, persisted,
                           tasks, procs>>
            /\ execs' = Drop(execs, e)]_vars

\* The coroutine of a deleted job and the coroutine of a paused or disabled
\* job are about to run.
C10_Witness ==
    \E e1 \in DOMAIN execs, e2 \in DOMAIN execs :
        /\ execs[e1].pc = "start" /\ execs[e1].sid \notin DOMAIN schedules
        /\ execs[e2].pc = "start" /\ execs[e2].sid \in DOMAIN schedules
        /\ schedules[execs[e2].sid].status # "active"

\* C11: a sequential firing invokes the callback for the types of the job's
\* list in list order, and each invocation has returned (its task dict is
\* final and its script run is over) before the next one starts.
C11_SequentialOrder ==
    /\ [](\A e \in Holders :
            LET x == execs[e]
            IN  /\ Len(x.ran) = x.idx
                /\ x.idx <= Len(x.types)
                /\ \A i \in 1..x.idx : tasks[x.ran[i]].backup_type = x.types[i]
                /\ \A i \in 1..(x.idx - 1) :
                      /\ x.ran[i] < x.ran[i + 1]
                      /\ tasks[x.ran[i]].status \in {"completed", "failed"}
                      /\ x.ran[i] \notin DOMAIN procs
                /\ x.ran[x.idx] \in DOMAIN procs)
    /\ [][\A e \in DOMAIN execs :
            (/\ execs[e].pc = "start"
             /\ Active(execs[e].sid)
             /\ schedules[execs[e].sid].sequential_execution
             /\ e \in DOMAIN execs'
             /\ execs'[e] # execs[e])
            => /\ execs'[e].types = schedules[execs[e].sid].backup_types
               /\ execs'[e].idx = 1]_vars

\* The second type of a sequential firing runs, the first has returned.
C11_Witness ==
    \E e \in Holders :
        /\ execs[e].idx = 2
        /\ execs[e].types = <<"mongodb", "postgres">>
        /\ tasks[execs[e].ran[2]].status = "running"

\* Coroutine e, past the status check and the gate, takes its first step.
FiringBegins(e) ==
    /\ execs[e].pc = "start"
    /\ Active(execs[e].sid)
    /\ ~_running_backup
    /\ (e \in DOMAIN execs' => execs'[e] # execs[e])

\* C12 as stated: a firing of a job with sequential_execution false invokes
\* the callback once, for the first type of the list, and for no other type.
C12_FirstTypeOnly ==
    [][\A e \in DOMAIN execs :
          (FiringBegins(e) /\ ~schedules[execs[e].sid].sequential_execution)
          => /\ Len(tasks') = Len(tasks) + 1
             /\ tasks'[Len(tasks')].backup_type = schedules[execs[e].sid].backup_types[1]
             /\ e \in DOMAIN execs' =>
                   execs'[e].types = <<schedules[execs[e].sid].backup_types[1]>>]_vars

\* C13 as stated: the coroutine that run_now created for a stored job, when
\* it finds the gate clear, performs the firing (it invokes the callback, or
\* ends with a history entry) whatever the status of the job.
C13_RunNowAnyStatus ==
    [][\A e \in DOMAIN execs :
          (/\ execs[e].pc = "start"
           /\ execs[e].origin = "run_now"
           /\ execs[e].sid \in DOMAIN schedules
           /\ ~_running_backup
           /\ (e \in DOMAIN execs' => execs'[e] # execs[e]))
          => \/ Len(tasks') > Len(tasks)
             \/ history' # history]_vars

C15_RestartRearms ==
    [][/\ (running /\ ~running') =>
             schedules' = FileJobs(persisted)
       /\ (~running /\ running') =>
             \A id \in DOMAIN schedules :
                 id \in DOMAIN timers' <=> schedules[id].status = "active"]_vars

\* C16 as stated: a create request with missing, empty, out-of-range or
\* malformed recurrence parameters is refused and leaves the store, the
\* timers and the file unchanged; interval_minutes = 5 is accepted.
C16_InvalidRejected ==
    [][/\ \A req \in BadRequests :
             api_create_schedule(req) =>
                /\ response' \in {Some(400), Some(422)}
                /\ UNCHANGED <<schedules, timers, persisted>>
       /\ api_create_schedule(IntervalJob) =>
             /\ response' = Some(200)
             /\ DOMAIN schedules' # DOMAIN schedules]_vars

\* Record s carries the parameters that its recurrence kind requires.
ParamsPresent(s) ==
    /\ s.schedule_type = "cron" => IsSome(s.cron_expression)
    /\ s.schedule_type = "interval" =>
           /\ IsSome(s.interval_minutes)
           /\ Val(s.interval_minutes) >= MinInterval
           /\ Val(s.interval_minutes) <= MaxInterval
    /\ s.schedule_type \in {"daily", "weekly", "monthly"} => s.time_of_day # <<>>
    /\ s.schedule_type = "weekly" => IsSome(s.days_of_week) /\ Val(s.days_of_week) # <<>>
    /\ s.schedule_type = "monthly" =>
           IsSome(s.days_of_month) /\ Val(s.days_of_month) # <<>>
    /\ s.schedule_type = "once" => IsSome(s.run_date)

\* C17 as stated: every stored job carries the parameters that its recurrence
\* kind requires, whatever was created and updated.
C17_ParamsPresent == \A id \in DOMAIN schedules : ParamsPresent(schedules[id])

\* C18 as stated: the backup-type list of every stored job is non-empty and
\* holds enumerated backup types only, whatever was created and updated.
C18_TypesValid ==
    \A id \in DOMAIN schedules :
        /\ schedules[id].backup_types # <<>>
        /\ \A i \in 1..Len(schedules[id].backup_types) :
              schedules[id].backup_types[i] \in BackupTypeEnum

\* C19: every job is stored under the key equal to its own id (so distinct
\* jobs have distinct ids), in the store and in the file, and no step changes
\* the id or created_at of a job, whatever an update provides.
C19_IdImmutable ==
    /\ [](/\ \A id \in DOMAIN schedules : schedules[id].id = id
          /\ \A id \in DOMAIN FileJobs(persisted) : FileJobs(persisted)[id].id = id)
    /\ [][\A id \in DOMAIN schedules \cap DOMAIN schedules' :
             /\ schedules'[id].id = schedules[id].id
             /\ schedules'[id].created_at = schedules[id].created_at]_vars

\* A job created after time 0 went through the update that provides id,
\* created_at and run_count.
C19_Witness ==
    \E id \in DOMAIN schedules :
        /\ schedules[id].run_count = 7
        /\ schedules[id].created_at = 5
        /\ schedules[id].id = id

\* C20: an update of a stored job leaves every field that it does not
\* provide, other than updated_at and next_run, as it was (run_count,
\* last_run and last_status included), and leaves every other job as it was.
C20_UpdateMerges ==
    [][\A id \in DOMAIN schedules, u \in StoreUpdates :
          update_schedule(id, u) =>
            /\ DOMAIN schedules' = DOMAIN schedules
            /\ \A f \in DOMAIN schedules[id] \ (DOMAIN u \cup {"updated_at", "next_run", "next_run_text"}) :
                  schedules'[id][f] = schedules[id][f]
            /\ \A other \in DOMAIN schedules \ {id} :
                  schedules'[other] = schedules[other]]_vars

\* A job that has run once was updated, next to a second job.
C20_Witness ==
    /\ nUpdates = 1
    /\ Cardinality(DOMAIN schedules) = 2
    /\ \E id \in DOMAIN schedules :
          /\ schedules[id].run_count = 1
          /\ schedules[id].last_status = Some("success")
          /\ schedules[id].updated_at > schedules[id].created_at
          /\ schedules[id].status = "paused"

\* The ids that name no job of the store.
Unknown == JobIds \ DOMAIN schedules

\* C21: an operation that names an id the store does not hold reports
\* not-found (update, pause and resume return None, delete returns false,
\* get returns None, run_now returns false) and changes nothing: the store,
\* the timers, the gate, the history and the file stay as they were and no
\* firing coroutine is created.
C21_UnknownIdNoOp ==
    /\ [](\A id \in Unknown :
            /\ get_schedule(id) = None
            /\ \A u \in UpdateInputs \cup StoreUpdates :
                   update_schedule_returns(id, u) = None
            /\ delete_schedule_returns(id) = FALSE
            /\ run_now_returns(id) = FALSE)
    /\ [][\A id \in Unknown :
            (\/ \E u \in UpdateInputs \cup StoreUpdates : update_schedule(id, u)
             \/ pause_schedule(id)
             \/ resume_schedule(id)
             \/ delete_schedule(id)
             \/ run_now(id))
            => /\ UNCHANGED <<schedules, timers, _running_backup, history, persisted>>
               /\ UNCHANGED <<execs, nExec, tasks, procs>>]_vars

\* A deleted id is named while a firing holds the gate and a timer is armed.
C21_Witness ==
    /\ \E id \in Unknown : id <= nextId
    /\ _running_backup
    /\ timers # EmptyMap
    /\ nExec < MaxExecs

FileAfterSave ==
    IF writable THEN persisted' = json_file(schedules', now)
    ELSE persisted' \in {persisted, Corrupt}

\* C23: a failed write of schedules.json does not stop the operation that
\* saves: create, update, delete and the end of a firing keep their effect
\* on the store whether or not the write succeeds, and a write that succeeds
\* stores the whole job set of the store, whatever earlier writes lost.
C23_WriteFailureContained ==
    [][/\ \A id \in DOMAIN schedules :
             /\ \A u \in DiskUpdates :
                    (update_schedule(id, u) /\ nUpdates' # nUpdates)
                    => /\ schedules'[id].status = u.status
                       /\ schedules'[id].updated_at = now
                       /\ FileAfterSave
             /\ delete_schedule(id)
                    => /\ id \notin DOMAIN schedules'
                       /\ id \notin DOMAIN timers'
                       /\ FileAfterSave
       /\ (api_create_schedule(IntervalJob) /\ response' = Some(200))
             => /\ nextId' \in DOMAIN schedules' \ DOMAIN schedules
                /\ FileAfterSave
       /\ \A e \in DOMAIN execs :
             (CleanEnd(e) /\ running')
             => /\ execs[e].sid \in DOMAIN schedules
                    => schedules'[execs[e].sid].run_count
                           = schedules[execs[e].sid].run_count + 1
                /\ Len(history') = Len(history) + 1
                /\ ~_running_backup'
                /\ FileAfterSave]_vars

\* A write has failed: the store has gone on without the file.
C23_Witness ==
    /\ ~writable
    /\ persisted \notin {None, Corrupt}
    /\ DOMAIN FileJobs(persisted) # DOMAIN schedules
    /\ \E id \in DOMAIN schedules : schedules[id].run_count > 0

\* C25 as stated: at startup every record of the file that from_dict accepts
\* is loaded, whether it comes before or after a record of an unknown kind.
C25_BadRecordSkipped ==
    [][(running /\ ~running' /\ persisted \notin {None, Corrupt})
       => \A id \in DOMAIN Val(persisted).schedules :
             from_dict_ok(json_load(Val(persisted).schedules[id]))
             => /\ id \in DOMAIN schedules'
                /\ schedules'[id] = json_load(Val(persisted).schedules[id])]_vars

\* The limits a history query is checked with.
QueryLimits == {0, 1, 2, 3, 20, max_entries, max_entries + 1}

\* The ids of the entries of a history.
EntryIds(h) == {h[i].id : i \in 1..Len(h)}

\* A firing past the gate ends in this step: one call of ScheduleHistory.add.
Inserts == \E e \in DOMAIN execs : FiringEnds(e)

\* C26: the history never holds more than max_entries (100) entries; an
\* insertion into a full history keeps the new entry, at the head, and drops
\* the oldest one, at the tail.
C26_HistoryBounded ==
    /\ [](Len(history) <= max_entries)
    /\ [][(Inserts /\ Len(history) = max_entries)
          => /\ Len(history') = max_entries
             /\ history'[1].id \notin EntryIds(history)
             /\ history[max_entries].id \notin EntryIds(history')
             /\ \A i \in 1..(max_entries - 1) : history'[i + 1] = history[i]]_vars

\* A full history has taken one more entry.
C26_Witness ==
    /\ Len(history) = max_entries
    /\ history[1].id > 0
    /\ history[max_entries].id = 1 - max_entries

\* C27: the history is ordered newest first: an insertion puts the new entry
\* at the head and moves every entry already there one place down, unchanged;
\* nothing else changes the history; a query with limit n returns the first
\* n entries (the n latest insertions), a query for one job the first n
\* entries of that job, in the order of the history.
C27_NewestFirst ==
    /\ [](\A n \in QueryLimits :
            /\ get_history(None, n)
                 = SubSeq(history, 1, IF n < Len(history) THEN n ELSE Len(history))
            /\ \A id \in JobIds :
                 LET OfJob(entry) == entry.schedule_id = id
                     all == SelectSeq(history, OfJob)
                 IN  get_history(Some(id), n)
                       = SubSeq(all, 1, IF n < Len(all) THEN n ELSE Len(all)))
    /\ [][/\ Inserts
             => /\ Len(history') = IF Len(history) < max_entries
                                   THEN Len(history) + 1 ELSE max_entries
                /\ history'[1].id \notin EntryIds(history)
                /\ \A i \in 1..(Len(history') - 1) : history'[i + 1] = history[i]
          /\ ~Inserts => history' = history]_vars

\* Two firings have been inserted on top of the entries of both jobs.
C27_Witness ==
    /\ Len(history) >= 3
    /\ history[1].id > 0
    /\ history[2].id > 0
    /\ history[1].schedule_id # history[2].schedule_id
    /\ history[3].id < 0

\* C28 as stated: every dispatch, scheduled or manual, gets a task id that no
\* other dispatch has, so no dict of backup_tasks is replaced, and every
\* coroutine writes status and output lines to the dict of its own dispatch.
C28_TaskIdsDistinct ==
    /\ \A i \in 1..Len(tasks), j \in 1..Len(tasks) :
          i # j => tasks[i].task_id # tasks[j].task_id
    /\ \A p \in DOMAIN procs : procs[p].task \in {0, p}

\* C29 as stated: the status of a task dict moves from pending to running
\* and from running to completed or failed, and in no other way; completed_at
\* is None exactly while the status is pending or running.
C29_StatusForward ==
    /\ [](\A k \in 1..Len(tasks) :
            tasks[k].completed_at = None <=> tasks[k].status \in {"pending", "running"})
    /\ [][\A k \in 1..Len(tasks) :
            k <= Len(tasks') =>
                \/ tasks'[k].status = tasks[k].status
                \/ tasks[k].status = "pending" /\ tasks'[k].status = "running"
                \/ tasks[k].status = "running"
                      /\ tasks'[k].status \in {"completed", "failed"}]_vars

\* C30 as stated: when the process of a task exits, the task is completed if
\* and only if the exit code is 0 and otherwise failed with the exit code in
\* error, for backups and restores alike; a spawn that raises ends the task
\* as failed.
C30_ExitCodeDecides ==
    [][\A p \in DOMAIN procs :
          /\ \A code \in ExitCodes :
                ProcEnd(p, code) =>
                    LET d == tasks'[procs[p].task]
                    IN  /\ d.status = IF code = 0 THEN "completed" ELSE "failed"
                        /\ code > 0 => d.error = Some(<<"Exit code", code>>)
                        /\ d.completed_at = Some(now)
          /\ RestoreVolume(p, -1) => tasks'[procs[p].task].status = "failed"
          /\ RestoreEnd(p) =>
                (tasks'[procs[p].task].status = "completed"
                    <=> \A i \in 1..Len(procs[p].codes) : procs[p].codes[i] = 0)]_vars

\* Sequence a is a prefix of sequence b.
IsPrefix(a, b) == Len(a) <= Len(b) /\ SubSeq(b, 1, Len(a)) = a

\* C31 as stated: the output of a task dict only grows at its end, and once
\* the status is completed or failed the output no longer changes.
C31_OutputAppendOnly ==
    [][\A k \in 1..Len(tasks) :
          k <= Len(tasks') =>
              /\ IsPrefix(tasks[k].output, tasks'[k].output)
              /\ tasks[k].status \in {"completed", "failed"}
                    => tasks'[k].output = tasks[k].output]_vars

\* C32 as stated: for a one-shot job the computed next fire time is run_date
\* until the job has fired; when a firing at or after run_date has ended in
\* success, the next_run computed and stored is None and the job is still in
\* the store with status active.
C32_OnceExhausted ==
    /\ [](\A id \in DOMAIN schedules :
            (schedules[id].schedule_type = "once" /\ schedules[id].run_count = 0)
            => _calculate_next_run(schedules[id], now) = schedules[id].run_date)
    /\ [][\A e \in DOMAIN execs :
            (/\ CleanEnd(e)
             /\ execs[e].sid \in DOMAIN schedules
             /\ schedules[execs[e].sid].schedule_type = "once"
             /\ schedules[execs[e].sid].status = "active"
             /\ Val(schedules[execs[e].sid].run_date) <= now)
            => /\ execs[e].sid \in DOMAIN schedules'
               /\ schedules'[execs[e].sid].status = "active"
               /\ schedules'[execs[e].sid].next_run = None
               /\ _calculate_next_run(schedules'[execs[e].sid], now) = None]_vars

\* The next occurrence of hour:minute tod strictly after time t.
NextDaily(tod, t) ==
    LET m == tod[1] * 60 + tod[2]
    IN  IF MinuteOfDay(t) < m THEN DayOf(t) * 1440 + m
        ELSE (DayOf(t) + 1) * 1440 + m

\* C33 as stated: at every reference time the computed next fire time of a
\* job of any kind is None, and then the job is a one-shot that has fired,
\* or strictly later than the reference time; for an interval job it is the
\* reference time plus interval_minutes; for a daily job it is hour:minute
\* of the same day if that is still ahead and of the next day otherwise
\* (02:00 at 2024-01-01T10:00 gives 2024-01-02T02:00).
C33_NextRunAhead ==
    \A id \in DOMAIN schedules :
        LET s == schedules[id]
            r == _calculate_next_run(s, now)
        IN  /\ r = None => (s.schedule_type = "once" /\ s.run_count > 0)
            /\ r # None => Val(r) > now
            /\ s.schedule_type = "interval" => r = Some(now + Val(s.interval_minutes))
            /\ s.schedule_type = "daily" => r = Some(NextDaily(s.time_of_day, now))
            /\ (s.schedule_type = "daily" /\ s.time_of_day = <<2, 0>> /\ now = 600)
                  => r = Some(1440 + 120)

\* C34: a firing past the gate always ends, whether the callback returned,
\* raised, was given an unknown type or an empty list: the coroutine ends,
\* the outcome is in the history, the gate is clear, and no timer of this
\* or any other job is touched, so later firings go on.
C34_FiringNeverRaises ==
    [][\A e \in DOMAIN execs :
          (FiringEnds(e) /\ running')
          => /\ timers' = timers
             /\ ~_running_backup'
             /\ execs' = Drop(execs, e)
             /\ Len(history') = Len(history) + 1
             /\ history'[1].schedule_id = execs[e].sid
             /\ history'[1].status = IF RaisedEnd(e) THEN "failed" ELSE "success"
             /\ \A i \in 1..Len(history) : history'[i + 1] = history[i]]_vars

\* After a firing that failed, another firing has run to its end while a
\* timer is still armed.
C34_Witness ==
    /\ Len(history) = 2
    /\ history[2].status = "failed"
    /\ history[1].status = "success"
    /\ timers # EmptyMap
    /\ ~_running_backup

\* C35: get_stats reports counts by status that sum to the number of stored
\* jobs, at most 5 upcoming runs, each of an active job with a next_run, in
\* ascending order of next_run and no later than any active job's next_run
\* left out, and the 5 most recently inserted history entries.
C35_StatsUpcomingSorted ==
    LET st == get_stats
        up == st.upcoming_runs
        cand == {id \in DOMAIN schedules :
                   schedules[id].status = "active" /\ IsSome(schedules[id].next_run)}
    IN  /\ st.total_schedules = Cardinality(DOMAIN schedules)
        /\ st.active + st.paused + st.disabled = st.total_schedules
        /\ st.disabled >= 0
        /\ Len(up) = (IF Cardinality(cand) < 5 THEN Cardinality(cand) ELSE 5)
        /\ \A i \in 1..Len(up) :
              /\ up[i].id \in cand
              /\ up[i].next_run = schedules[up[i].id].next_run
        /\ \A i, j \in 1..Len(up) : i # j => up[i].id # up[j].id
        /\ \A i, j \in 1..Len(up) :
              i < j => Val(up[i].next_run) <= Val(up[j].next_run)
        /\ \A id \in cand \ {up[i].id : i \in 1..Len(up)} :
              \A i \in 1..Len(up) : Val(up[i].next_run) <= Val(schedules[id].next_run)
        /\ st.recent_history
              = SubSeq(history, 1, IF Len(history) < 5 THEN Len(history) ELSE 5)

\* The stored next_run of job id is the instant its timer is armed for, when
\* the job is active and armed.
NextRunIsTimer(scheds, tm, id) ==
    (id \in DOMAIN scheds /\ id \in DOMAIN tm /\ scheds[id].status = "active")
        => scheds[id].next_run = Some(tm[id])

\* C36: after create, update and start, and after each firing that has run
\* to its end with success, the stored next_run of every active job with an armed timer
\* is the instant that timer will next fire at.
C36_NextRunIsTimer ==
    [][/\ (nextId' # nextId \/ nUpdates' # nUpdates \/ (~running /\ running'))
            => \A id \in DOMAIN schedules' :
                  (id \notin DOMAIN schedules \/ schedules'[id] # schedules[id])
                      => NextRunIsTimer(schedules', timers', id)
       /\ \A e \in DOMAIN execs :
            (CleanEnd(e) /\ running')
                => NextRunIsTimer(schedules', timers', execs[e].sid)]_vars

\* The backup types the coroutine e has invoked the callback for, at the step
\* that ends it.
Invoked(e) == IF execs[e].pc = "wait" THEN SubSeq(execs[e].types, 1, execs[e].idx) ELSE <<>>

\* C37: the backup_types of the history entry of a firing that succeeded is
\* the sequence of types its callbacks were invoked for, whether the job runs
\* its types one after the other or not, and whether or not the job was
\* updated while the firing was in flight.
C37_EntryTypesInvoked ==
    [][\A e \in DOMAIN execs :
          (CleanEnd(e) /\ running')
              => history'[1].backup_types = Invoked(e)]_vars

\* C38: a job deleted while its execution is in flight stays deleted: at the
\* end of the execution the gate is cleared, the file is written, and the job
\* is neither in the store nor in the file written nor in the job table.
C38_DeleteInFlightStays ==
    [][\A e \in DOMAIN execs :
          (FiringEnds(e) /\ running' /\ execs[e].sid \notin DOMAIN schedules)
              => /\ ~_running_backup'
                 /\ persisted' = json_file(schedules', now)
                 /\ execs[e].sid \notin DOMAIN schedules'
                 /\ execs[e].sid \notin DOMAIN FileJobs(persisted')
                 /\ execs[e].sid \notin DOMAIN timers']_vars

\* The last firing that ended, with success, is of a job that was deleted
\* in flight, and another job is in the store and the file.
C38_Witness ==
    /\ history # <<>>
    /\ history[1].status = "success"
    /\ history[1].schedule_id \notin DOMAIN schedules
    /\ history[1].schedule_id \notin DOMAIN timers
    /\ DOMAIN schedules # {}
    /\ FileJobs(persisted) = schedules
    /\ ~_running_backup
    /\ execs = EmptyMap

\* The entries of the history that record a success of job id.
SuccessEntries(id) ==
    {i \in 1..Len(history) :
        history[i].schedule_id = id /\ history[i].status = "success"}

\* C39: run_count counts the firings that ended with outcome success: a step
\* changes the run_count of a job, by exactly one upwards, only when it ends
\* a firing of that job with success, every other step (a failed firing, a
\* firing skipped for the gate or for the status, a restart) leaves run_count
\* and last_run as they are, and run_count is never below the number of
\* success entries the history holds for the job.
C39_RunCountCountsSuccesses ==
    /\ [](\A id \in DOMAIN schedules :
            Cardinality(SuccessEntries(id)) <= schedules[id].run_count)
    /\ [][\A id \in DOMAIN schedules \cap DOMAIN schedules' :
            LET succeeded == \E e \in DOMAIN execs :
                                CleanEnd(e) /\ running' /\ execs[e].sid = id
            IN  /\ schedules'[id].run_count
                     = schedules[id].run_count + (IF succeeded THEN 1 ELSE 0)
                /\ ~succeeded => schedules'[id].last_run = schedules[id].last_run
                /\ succeeded => /\ schedules'[id].last_run = Some(now)
                                /\ Cardinality(SuccessEntries(id))' 
                                     = Cardinality(SuccessEntries(id)) + 1]_vars

\* A job that succeeded once and then failed once: the count is one.
C39_Witness ==
    \E id \in DOMAIN schedules :
        /\ Len(history) = 2
        /\ history[1].schedule_id = id /\ history[1].status = "failed"
        /\ history[2].schedule_id = id /\ history[2].status = "success"
        /\ schedules[id].run_count = 1
        /\ schedules[id].last_run = Some(history[2].timestamp)
        /\ schedules[id].last_status = Some("failed")

\* The ids of the well-formed records a file holds.
PersistedIds(file) ==
    {id \in DOMAIN FileJobs(file) : from_dict_ok(FileJobs(file)[id])}

\* C40: a job leaves the persisted set only by a delete of that job: a step
\* that is not delete_schedule of a job the file holds (a restart, a create,
\* an update, a firing) leaves the job in the file, also after a load that
\* met a record it could not parse.
C40_OnlyDeleteRemoves ==
    [][\A id \in PersistedIds(persisted) :
          \/ id \in PersistedIds(persisted')
          \/ id \in DOMAIN schedules /\ delete_schedule(id)]_vars


====
